---- MODULE Spec2Model ----
(***************************************************************************)
(* Model of the Vantage cost adapter: the HTTP client with its retry loop  *)
(* (client/http.go), the cursor pager (client/pager.go) and the sync       *)
(* orchestrator (adapter/adapter.go).                                      *)
(*                                                                         *)
(* A state is the position of the single thread of execution (pc), the     *)
(* fields of the httpClient, Pager and Adapter objects it works on, the    *)
(* content of the sink, and the cancellation state of the context.  The    *)
(* server, the network, the sink and the canceller are the environment:    *)
(* their outcomes are drawn with \E at the call that observes them.        *)
(*                                                                         *)
(* Units: back-off delays are in milliseconds; rate-limit hints are whole  *)
(* seconds as on the wire.                                                 *)
(***************************************************************************)
EXTENDS Integers, Sequences, FiniteSets, TLC

VARIABLES
    entry,          \* the exported operation being run: "Sync" or "AllPages"
    pc,             \* position of the thread of execution
    ctxDone,        \* the caller's context has been cancelled / has expired
    sleepCancelled, \* the context was cancelled during a sleep of waitBeforeRetry (history)
    cfgMaxRetries,  \* client.Config.MaxRetries as configured by the caller
    maxRetries,     \* httpClient.maxRetries
    req,            \* logical request in progress: "none", "costs", "forecast"
    attempt,        \* loop variable of doCostsRequest / doForecastRequest
    calls,          \* httpClient.Do invocations of the logical request in progress
    lastErr,        \* lastErr of the retry loop
    delay,          \* duration the thread is sleeping for in waitBeforeRetry (0: not sleeping)
    ret,            \* what the last finished client call returned
    cursor,         \* Pager.query.Cursor (0 is the empty cursor, p > 0 leads to page p+1)
    hasStarted,     \* Pager.hasStarted
    served,         \* pages the server has answered with in the current range
    faulted,        \* some httpClient.Do of the current drain did not yield a page
    allRows,        \* rows collected by the drain in progress
    drain,          \* outcome of the drain: "none", "running", "ok", "error"
    cfg,            \* adapter.Config: endSet (EndDate # nil), start, end, includeForecast,
                    \* reportToken (CostReportToken # "")
    isBackfill,     \* syncSingleRange's isBackfill
    chunked,        \* the sync runs in syncChunked
    startDate,      \* syncSingleRange's startDate (syncChunked's current)
    endDate,        \* syncSingleRange's endDate (syncChunked's chunkEnd)
    qStart,         \* query.StartAt as dispatched (after applyBookmark)
    pageCount,      \* fetchAndCollectRecords' pageCount
    bookmarks,      \* the sink's bookmark store: bookmark key -> value written
    preBookmark,    \* what the sink holds for the keys not written by this run
    writes,         \* the batches WriteRecords has stored during this Sync, oldest first
    getCalls,       \* GetBookmark invocations of this Sync
    setCalls,       \* SetBookmark invocations of this Sync
    rangeWritten,   \* WriteRecords returned nil for the cost records of the current range
    result,         \* what Sync returned
    ranges,         \* the <<startDate, endDate>> syncSingleRange was called with by this Sync
    bookmarks0,     \* the sink's bookmark store when this Sync was invoked (history)
    run,            \* number of the Sync invocation in progress (1: the first)
    clock,          \* the wall clock: what time.Now().UTC() returns
    fn,             \* the call of a function of the mapping or validation code that is
                    \* being looked at on its own: its inputs, and its outputs once applied
    ops,            \* the calls made to the server and the sink for the range in progress,
                    \* oldest first; the attempts of one request are one entry (history)
    totalRecords    \* Adapter.diagnosticsSummary.TotalRecords

clientVars == <<cfgMaxRetries, maxRetries, req, attempt, calls, lastErr, delay, ret>>
pagerVars  == <<cursor, hasStarted, served, faulted, allRows, drain>>
sinkVars   == <<bookmarks, bookmarks0, preBookmark, writes, getCalls, setCalls, rangeWritten>>
syncVars   == <<cfg, isBackfill, chunked, startDate, endDate, qStart, pageCount, result, ranges>>
vars == <<entry, pc, ctxDone, sleepCancelled, run, clock, fn, ops, totalRecords, clientVars, pagerVars, sinkVars,
          syncVars>>

----------------------------------------------------------------------------
(* Bounds of the model *)

MaxRetriesCfg == 1      \* configured max_retries ranges over 0..MaxRetriesCfg
MaxResetSeconds == 2    \* numeric rate-limit header values range over 0..MaxResetSeconds
MaxPages == 3           \* the server ends every page stream after at most MaxPages pages
MaxRows == 2            \* a page carries 0..MaxRows rows
TicksPerSecond == 2     \* resolution of an instant: ticks per second
MaxRuns == 2            \* Sync is invoked at most MaxRuns times in a row

(* Program constants *)

defaultRetries == 5             \* client.go
baseBackoffDelay == 1000        \* 1 * time.Second, in ms
maxBackoffDelay == 30000        \* 30 * time.Second, in ms
exponentialBase == 2
jitterFractionPct == 50         \* jitterFraction = 0.5
jitterOffsetPct == 25           \* jitterOffset = 0.25

Max(a, b) == IF a >= b THEN a ELSE b
Min(a, b) == IF a <= b THEN a ELSE b

RECURSIVE Pow(_, _)
Pow(b, n) == IF n = 0 THEN 1 ELSE b * Pow(b, n - 1)

----------------------------------------------------------------------------
\* Errors.  kind: "none", "rl" (a rateLimitError), "http" (non-200 status),
\* "decode", "net" (Do failed, context alive), "ctx" (Do failed because the
\* context is done).  has5xx: err.Error() contains one of the substrings
\* "500", "502", "503", "504".

NoErr == [kind |-> "none", status |-> 0, hint |-> 0, has5xx |-> FALSE]

Statuses == {200, 404, 429, 500, 501, 503}

\* a rate-limit header: absent, present but not an integer, or an integer
HeaderValues ==
    {[set |-> FALSE, int |-> FALSE, n |-> 0], [set |-> TRUE, int |-> FALSE, n |-> 0]}
    \cup [set : {TRUE}, int : {TRUE}, n : 0..MaxResetSeconds]
NoHeader == [set |-> FALSE, int |-> FALSE, n |-> 0]

\* what the server or the network answers to one httpClient.Do.  text5xx: the
\* response body (io = "resp") or the text of the transport error, which quotes
\* the request URL (io = "net", "ctx"), contains "500", "502", "503" or "504".
Responses ==
    [io : {"resp"}, status : Statuses \ {429}, xReset : {NoHeader}, retryAfter : {NoHeader},
     text5xx : BOOLEAN, decodable : {TRUE}]
    \cup [io : {"resp"}, status : {429}, xReset : HeaderValues, retryAfter : HeaderValues,
          text5xx : BOOLEAN, decodable : {TRUE}]
    \cup [io : {"resp"}, status : {200}, xReset : {NoHeader}, retryAfter : {NoHeader},
          text5xx : BOOLEAN, decodable : {FALSE}]
    \cup [io : {"net", "ctx"}, status : {0}, xReset : {NoHeader}, retryAfter : {NoHeader},
          text5xx : BOOLEAN, decodable : {FALSE}]

\* strings.Contains(strconv.Itoa(status), s) for s in 500, 502, 503, 504
StatusText5xx(status) == status \in {500, 502, 503, 504}

parseRateLimitReset(resp) ==
    LET resetStr == IF resp.xReset.set THEN resp.xReset ELSE resp.retryAfter
    IN  IF ~resetStr.set THEN 0
        ELSE IF ~resetStr.int THEN 0
        ELSE resetStr.n

\* the error doCostsRequestOnce / doForecastRequestOnce returns for a response (NoErr: a page)
RequestOnce(resp) ==
    IF resp.io # "resp"
    THEN [kind |-> resp.io, status |-> 0, hint |-> 0, has5xx |-> resp.text5xx]
    ELSE IF resp.status = 429 /\ parseRateLimitReset(resp) > 0
    THEN [kind |-> "rl", status |-> 429, hint |-> parseRateLimitReset(resp), has5xx |-> FALSE]
    ELSE IF resp.status # 200
    THEN [kind |-> "http", status |-> resp.status, hint |-> 0,
          has5xx |-> StatusText5xx(resp.status) \/ resp.text5xx]
    ELSE IF ~resp.decodable
    THEN [kind |-> "decode", status |-> 200, hint |-> 0, has5xx |-> resp.text5xx]
    ELSE NoErr

\* a retrier that recovers from rate limiting only
shouldRetryRateLimitOnly(err, att) == att < maxRetries /\ err.kind = "rl"

shouldRetry(err, att) ==
    IF att >= maxRetries THEN FALSE
    ELSE IF err.kind = "rl" THEN TRUE
    ELSE err.has5xx

\* rand.Float64() in hundredths
JitterDraws == {0, 99}

\* the delay waitBeforeRetry computes, in ms, for the jitter draw r (hundredths)
BackoffDelay(att, r) ==
    LET d0 == baseBackoffDelay * Pow(exponentialBase, att)
        d1 == (d0 * (100 + ((r * jitterFractionPct) \div 100) - jitterOffsetPct)) \div 100
    IN  IF d1 > maxBackoffDelay THEN maxBackoffDelay ELSE d1

\* client.New: defensive default of MaxRetries
NewMaxRetries(configured) == IF configured <= 0 THEN defaultRetries ELSE configured

----------------------------------------------------------------------------
(* The server's page streams *)

NoPage == [idx |-> 0, next |-> 0, hasMore |-> FALSE]

\* the pages the server may answer with to a request carrying cursor c: page
\* c+1 of the stream, with a next_cursor that is empty (0) or leads on, and a
\* has_more flag
PageChoices(c) ==
    {[idx |-> c + 1, next |-> nx, hasMore |-> hm] :
        nx \in (IF c + 1 < MaxPages THEN {0, c + 1} ELSE {0}), hm \in BOOLEAN}

RowCount(p) == p % (MaxRows + 1)
RowsOfPage(p) == [i \in 1..RowCount(p) |-> <<p, i>>]

RECURSIVE RowsOfPages(_)
\* the rows of pages 1..k, in stream order
RowsOfPages(k) == IF k = 0 THEN <<>> ELSE RowsOfPages(k - 1) \o RowsOfPage(k)

----------------------------------------------------------------------------
(* httpClient: doCostsRequest / doForecastRequest *)

\* a call to the server or the sink as it is seen from outside: a cost page
\* fetch with its cursor, "write", "bookmark", "forecast", "fwrite"
Op(kind, c) == [op |-> kind, cursor |-> c]

\* the log with the call e; the attempts of one request are entered once
Logged(log, e) == IF log # <<>> /\ log[Len(log)] = e THEN log ELSE Append(log, e)

NoRet == [ok |-> FALSE, kind |-> "none", said |-> 0, cause |-> NoErr, page |-> NoPage]

\* fmt.Errorf("... request failed after %d attempts: %w", c.maxRetries+1, lastErr)
FailedAfter(err) ==
    [ok |-> FALSE, kind |-> "failed", said |-> maxRetries + 1, cause |-> err, page |-> NoPage]

\* entering doCostsRequest / doForecastRequest: var lastErr error; attempt := 0
StartRequest(kind) ==
    /\ req' = kind
    /\ attempt' = 0
    /\ calls' = 0
    /\ lastErr' = NoErr
    /\ delay' = 0
    /\ ret' = NoRet
    /\ pc' = "attempt"
    /\ UNCHANGED <<cfgMaxRetries, maxRetries>>

\* the request has returned and its result has been consumed: its locals are gone
ClientIdle ==
    /\ req' = "none"
    /\ attempt' = 0
    /\ calls' = 0
    /\ lastErr' = NoErr
    /\ delay' = 0
    /\ ret' = NoRet
    /\ UNCHANGED <<cfgMaxRetries, maxRetries>>

\* One iteration of the retry loop up to its next blocking point: the request
\* is sent (httpClient.Do), the response classified, and either the page is
\* returned, or the loop breaks, or the thread enters the sleep of
\* waitBeforeRetry for the delay computed there.
TransportCall ==
    /\ UNCHANGED <<sleepCancelled, run, clock, fn, totalRecords>>
    /\ ops' = Logged(ops, IF req = "costs" THEN Op("fetch", cursor) ELSE Op("forecast", 0))
    /\ pc = "attempt"
    /\ \E resp \in Responses :
        /\ ctxDone => resp.io = "ctx"
        /\ ctxDone' = (ctxDone \/ resp.io = "ctx")
        /\ calls' = calls + 1
        /\ faulted' = (faulted \/ RequestOnce(resp) # NoErr)
        /\ LET err == RequestOnce(resp) IN
            IF err = NoErr
            THEN /\ \E pg \in (IF req = "costs" THEN PageChoices(cursor) ELSE {NoPage}) :
                        ret' = [ok |-> TRUE, kind |-> "page", said |-> 0,
                                cause |-> NoErr, page |-> pg]
                 /\ pc' = "ret"
                 /\ UNCHANGED <<lastErr, delay>>
            ELSE /\ lastErr' = err
                 /\ IF shouldRetry(err, attempt)
                    THEN /\ \E r \in JitterDraws : delay' = BackoffDelay(attempt, r)
                         /\ pc' = "sleep"
                         /\ UNCHANGED ret
                    ELSE /\ ret' = FailedAfter(err)
                         /\ pc' = "ret"
                         /\ UNCHANGED delay
    /\ UNCHANGED <<entry, cfgMaxRetries, maxRetries, req, attempt>>
    /\ UNCHANGED <<cursor, hasStarted, served, allRows, drain, sinkVars, syncVars>>

\* waitBeforeRetry: <-time.After(delay); then attempt++ and the loop condition
TimerFires ==
    /\ UNCHANGED <<sleepCancelled, run, clock, fn, ops, totalRecords>>
    /\ pc = "sleep"
    /\ ~ctxDone
    /\ delay' = 0
    /\ attempt' = attempt + 1
    /\ IF attempt + 1 <= maxRetries
       THEN pc' = "attempt" /\ UNCHANGED ret
       ELSE pc' = "ret" /\ ret' = FailedAfter(lastErr)
    /\ UNCHANGED <<entry, ctxDone, cfgMaxRetries, maxRetries, req, calls, lastErr>>
    /\ UNCHANGED <<pagerVars, sinkVars, syncVars>>

\* waitBeforeRetry: <-ctx.Done(); the request returns ctx.Err() unwrapped
SleepCancelled ==
    /\ UNCHANGED <<sleepCancelled, run, clock, fn, ops, totalRecords>>
    /\ pc = "sleep"
    /\ ctxDone
    /\ delay' = 0
    /\ ret' = [ok |-> FALSE, kind |-> "ctx", said |-> 0, cause |-> NoErr, page |-> NoPage]
    /\ pc' = "ret"
    /\ UNCHANGED <<entry, ctxDone, cfgMaxRetries, maxRetries, req, attempt, calls, lastErr>>
    /\ UNCHANGED <<pagerVars, sinkVars, syncVars>>

\* the caller cancels the context, or its deadline passes
Cancel ==
    /\ sleepCancelled' = (pc = "sleep")
    /\ UNCHANGED <<run, clock, fn, ops, totalRecords>>
    /\ ~ctxDone
    /\ pc \notin {"done"}
    /\ ctxDone' = TRUE
    /\ UNCHANGED <<entry, pc, clientVars, pagerVars, sinkVars, syncVars>>

----------------------------------------------------------------------------
(* Texts: URLs, log fields and error messages.  A text is the sequence of its
   parts; the configured tokens are parts of their own. *)

BearerToken == "<credentials.token>"
WorkspaceToken == "<workspace_token>"
CostReportToken == "<cost_report_token>"
ConfiguredTokens == {BearerToken, WorkspaceToken, CostReportToken}

\* u.String() in doCostsRequestOnce ("costs") and doForecastRequestOnce
\* ("forecast"); url.Values.Encode orders the parameters by name
RequestURL(kind) ==
    IF kind = "forecast"
    THEN <<"https://host", "/cost_reports/", CostReportToken, "/forecast",
           "?", "end_at=", "end", "&", "start_at=", "start">>
    ELSE IF cfg.reportToken
    THEN <<"https://host", "/costs",
           "?", "cost_report_token=", CostReportToken, "&", "end_at=", "end",
           "&", "start_at=", "start">>
    ELSE <<"https://host", "/costs",
           "?", "end_at=", "end", "&", "start_at=", "start",
           "&", "workspace_token=", WorkspaceToken>>

\* redactQueryParam: ([?&])name=([^&]*) becomes $1name=****
redactQueryParam(rawURL, paramName) ==
    [i \in DOMAIN rawURL |->
        IF i > 2 /\ rawURL[i - 1] = paramName /\ rawURL[i - 2] \in {"?", "&"}
        THEN "****" ELSE rawURL[i]]

\* redactURL: the two token parameters, then /cost_reports/[^/?#]+
redactURL(rawURL) ==
    LET q == redactQueryParam(redactQueryParam(rawURL, "workspace_token="),
                              "cost_report_token=")
    IN  [i \in DOMAIN q |-> IF i > 1 /\ q[i - 1] = "/cost_reports/" THEN "****" ELSE q[i]]

\* the "url" field of the log entry "Making costs request" / "Making forecast request"
LoggedURL(kind) == redactURL(RequestURL(kind))

\* err.Error() of what doCostsRequestOnce / doForecastRequestOnce returns.  The
\* error of httpClient.Do is a *url.Error, whose text is Op "URL": cause.
ErrorText(err, kind) ==
    IF err.kind \in {"net", "ctx"}
    THEN <<"executing request: ", "Get ">> \o RequestURL(kind) \o <<": ", "cause">>
    ELSE IF err.kind = "rl" THEN <<"rate limited, reset in ", "resetIn">>
    ELSE IF err.kind = "http" THEN <<"API request failed with status ", "status", ": ", "body">>
    ELSE IF err.kind = "decode" THEN <<"decoding response: ", "cause">>
    ELSE <<>>

ContainsToken(text) == \E i \in DOMAIN text : text[i] \in ConfiguredTokens

----------------------------------------------------------------------------
(* Pager *)

HasMore == cursor # 0

\* a NextPage without the guard
NextPageNeverRefuses == FALSE

\* NextPage's guard: "no more pages available"
NextPageRefuses == hasStarted /\ cursor = 0

\* Pager.AllPages: the loop condition and the call of NextPage
AllPagesLoop ==
    /\ UNCHANGED <<sleepCancelled, run, clock, fn, ops, totalRecords>>
    /\ entry = "AllPages"
    /\ pc = "loop"
    /\ IF HasMore \/ cursor = 0
       THEN IF NextPageRefuses
            THEN /\ drain' = "error"
                 /\ pc' = "done"
                 /\ UNCHANGED <<clientVars, cursor, hasStarted, served, faulted, allRows>>
            ELSE /\ StartRequest("costs")
                 /\ UNCHANGED pagerVars
       ELSE /\ drain' = "ok"
            /\ pc' = "done"
            /\ UNCHANGED <<clientVars, cursor, hasStarted, served, faulted, allRows>>
    /\ UNCHANGED <<entry, ctxDone, sinkVars, syncVars>>

\* Pager.NextPage after client.Costs returned, and the rest of the loop body
\* of AllPages
AllPagesReturn ==
    /\ UNCHANGED <<sleepCancelled, run, clock, fn, ops, totalRecords>>
    /\ entry = "AllPages"
    /\ pc = "ret"
    /\ IF ~ret.ok
       THEN /\ drain' = "error"
            /\ pc' = "done"
            /\ UNCHANGED <<cursor, hasStarted, served, allRows>>
       ELSE /\ hasStarted' = TRUE
            /\ cursor' = ret.page.next
            /\ served' = served + 1
            /\ allRows' = allRows \o RowsOfPage(ret.page.idx)
            /\ IF ~ret.page.hasMore
               THEN drain' = "ok" /\ pc' = "done"
               ELSE drain' = drain /\ pc' = "loop"
    /\ ClientIdle
    /\ UNCHANGED <<entry, ctxDone, faulted, sinkVars, syncVars>>

----------------------------------------------------------------------------
(* Time.  An instant is a number of ticks since 2024-01-01T00:00:00Z. *)

Second == TicksPerSecond
Hour == 3600 * Second
Day == 24 * Hour

\* day numbers (since 2024-01-01) of the first of each month of 2024 and of 2025-01-01
MonthStartDays == {0, 31, 60, 91, 121, 152, 182, 213, 244, 274, 305, 335, 366}

SetMax(S) == CHOOSE x \in S : \A y \in S : y <= x
SetMin(S) == CHOOSE x \in S : \A y \in S : x <= y

\* time.Date(t.Year(), t.Month(), 1, 0, 0, 0, 0, time.UTC)
FirstOfMonth(t) == Day * SetMax({d \in MonthStartDays : d * Day <= t})

\* a chunk end thirty days after the chunk start
ThirtyDaysLater(t) == t + 30 * Day

\* a chunk end a fortnight after the chunk start
FortnightLater(t) == t + 14 * Day

\* time.Date(t.Year(), t.Month()+1, 1, 0, 0, 0, 0, time.UTC)
FirstOfNextMonth(t) == Day * SetMin({d \in MonthStartDays : d * Day > t})

\* A bookmark value as the sink stores it: no value (""), a string that is no
\* RFC3339 time, or an RFC3339 time, which carries whole seconds.
BmNone == [kind |-> "none", sec |-> 0]
BmBad == [kind |-> "bad", sec |-> 0]
BmTime(sec) == [kind |-> "time", sec |-> sec]

\* t.Format("2006-01-02"), read back as midnight of that day
FormatDateOnly(t) == BmTime((t \div (24 * 3600 * TicksPerSecond)) * (24 * 3600))

\* t.Format(time.RFC3339): the layout has no fractional seconds
FormatRFC3339(t) == BmTime(t \div TicksPerSecond)

\* time.Parse(time.RFC3339, v) of a value that parses
ParseRFC3339(v) == v.sec * TicksPerSecond

\* generateQueryHash: the parts of the fingerprint that vary within a run are
\* the formatted start and end (the hash is taken to be injective on its input)
generateQueryHash(start, end) == <<FormatRFC3339(start).sec, FormatRFC3339(end).sec>>

\* what time.Now().UTC() may return when the first Sync is invoked
NowChoices == {40 * Day, 40 * Day + 13 * Hour + 1}

\* the time that passes between the return of a Sync and the next invocation:
\* less than a tick, or a day (the schedule of the incremental pull)
ClockAdvances == {0, Day}

\* (start_date, end_date) of the backfill configurations
BackfillChoices == {<<0, 10 * Day>>, <<0, 60 * Day>>, <<14 * Day, 50 * Day>>}

PreBookmarks == {BmNone, BmBad, BmTime(38 * 86400), BmTime(40 * 86400)}

\* the rows of a forecast response
ForecastRows == <<<<0, 1>>>>

----------------------------------------------------------------------------
(* Sink *)

\* Sink.GetBookmark(key) when it returns no error
StoredBookmark(key) == IF key \in DOMAIN bookmarks THEN bookmarks[key] ELSE preBookmark

\* Sink.SetBookmark(key, value) when it returns no error
StoreBookmark(key, value) ==
    [k \in DOMAIN bookmarks \cup {key} |-> IF k = key THEN value ELSE bookmarks[k]]

----------------------------------------------------------------------------
(* Adapter *)

Running == [kind |-> "running", stage |-> "", cancel |-> FALSE, chunk |-> FALSE]
ReturnedNil == [kind |-> "nil", stage |-> "", cancel |-> FALSE, chunk |-> FALSE]

\* errors.Is(err, context.Canceled / DeadlineExceeded) of what a client call returned
IsCancellation(r) == r.kind = "ctx" \/ (r.kind = "failed" /\ r.cause.kind = "ctx")

\* a syncChunked that logs the error of a chunk and goes on
SyncFailsLogged(stage, cancel) ==
    /\ result' = [kind |-> "error", stage |-> stage, cancel |-> cancel, chunk |-> chunked]
    /\ pc' = "rangeend"

\* syncSingleRange returns err: Sync returns it, wrapped by syncChunked in a chunked run
SyncFails(stage, cancel) ==
    /\ result' = [kind |-> "error", stage |-> stage, cancel |-> cancel, chunk |-> chunked]
    /\ pc' = "done"

bookmarkKey == generateQueryHash(startDate, endDate)

\* Sync, syncIncremental / syncBackfill, syncDateRange and the head of syncChunked
SyncStart ==
    /\ UNCHANGED <<sleepCancelled, run, clock, fn>>
    /\ totalRecords' = 0
    /\ ops' = <<>>
    /\ entry = "Sync"
    /\ pc = "idle"
    /\ IF ~cfg.endSet
       THEN LET now == clock IN
                /\ startDate' = now - 3 * Day
                /\ endDate' = now - Day
                /\ isBackfill' = FALSE
                /\ chunked' = FALSE
                /\ pc' = "range"
                /\ UNCHANGED result
       ELSE /\ isBackfill' = TRUE
            /\ IF cfg.end - cfg.start > 24 * 30 * Hour
               THEN LET current == FirstOfMonth(cfg.start)
                        chunkEnd == FirstOfNextMonth(current)
                    IN  /\ chunked' = TRUE
                        /\ IF current < cfg.end
                           THEN /\ startDate' = current
                                /\ endDate' = IF chunkEnd > cfg.end THEN cfg.end ELSE chunkEnd
                                /\ pc' = "range"
                                /\ UNCHANGED result
                           ELSE /\ result' = ReturnedNil
                                /\ pc' = "done"
                                /\ UNCHANGED <<startDate, endDate>>
               ELSE /\ chunked' = FALSE
                    /\ startDate' = cfg.start
                    /\ endDate' = cfg.end
                    /\ pc' = "range"
                    /\ UNCHANGED result
    /\ getCalls' = 0
    /\ setCalls' = 0
    /\ ranges' = <<>>
    /\ UNCHANGED <<entry, ctxDone, clientVars, pagerVars, cfg, qStart, pageCount>>
    /\ UNCHANGED <<bookmarks, bookmarks0, preBookmark, writes, rangeWritten>>

\* syncSingleRange up to the fetch loop: the query, its hash, applyBookmark,
\* NewPager
BeginRange ==
    /\ UNCHANGED <<sleepCancelled, run, clock, fn, totalRecords>>
    /\ ops' = <<>>
    /\ pc = "range"
    /\ IF isBackfill
       THEN /\ qStart' = startDate
            /\ UNCHANGED getCalls
       ELSE /\ getCalls' = getCalls + 1
            /\ \E getErr \in BOOLEAN :
                LET lastEndDate == StoredBookmark(bookmarkKey) IN
                qStart' = IF ~getErr /\ lastEndDate.kind = "time"
                          THEN ParseRFC3339(lastEndDate)
                          ELSE startDate
    /\ cursor' = 0
    /\ hasStarted' = FALSE
    /\ served' = 0
    /\ faulted' = FALSE
    /\ allRows' = <<>>
    /\ drain' = "running"
    /\ pageCount' = 0
    /\ rangeWritten' = FALSE
    /\ ranges' = Append(ranges, <<startDate, endDate>>)
    /\ pc' = "loop"
    /\ UNCHANGED <<entry, ctxDone, clientVars, cfg, isBackfill, chunked, startDate, endDate,
                   result, bookmarks, bookmarks0, preBookmark, writes, setCalls>>

\* fetchAndCollectRecords: the loop condition and the call of NextPage
FetchLoop ==
    /\ UNCHANGED <<sleepCancelled, run, clock, fn, ops, totalRecords>>
    /\ entry = "Sync"
    /\ pc = "loop"
    /\ IF HasMore \/ pageCount = 0
       THEN IF NextPageRefuses
            THEN /\ drain' = "error"
                 /\ SyncFails("fetch", FALSE)
                 /\ UNCHANGED <<clientVars, cursor, hasStarted, served, faulted, allRows>>
            ELSE /\ StartRequest("costs")
                 /\ UNCHANGED <<pagerVars, result>>
       ELSE /\ drain' = "ok"
            /\ pc' = "write"
            /\ UNCHANGED <<clientVars, cursor, hasStarted, served, faulted, allRows, result>>
    /\ UNCHANGED <<entry, ctxDone, sinkVars>>
    /\ UNCHANGED <<cfg, isBackfill, chunked, startDate, endDate, qStart, pageCount, ranges>>

\* a fetchAndCollectRecords that puts the records of a page before those collected
FetchReturnPrepending ==
    /\ UNCHANGED <<sleepCancelled, run, clock, fn, ops>>
    /\ totalRecords' = (IF ret.ok THEN totalRecords + Len(RowsOfPage(ret.page.idx)) ELSE totalRecords)
    /\ entry = "Sync"
    /\ pc = "ret"
    /\ req = "costs"
    /\ IF ~ret.ok
       THEN /\ drain' = "error"
            /\ SyncFails("fetch", IsCancellation(ret))
            /\ UNCHANGED <<cursor, hasStarted, served, allRows, pageCount>>
       ELSE /\ hasStarted' = TRUE
            /\ cursor' = ret.page.next
            /\ served' = served + 1
            /\ allRows' = RowsOfPage(ret.page.idx) \o allRows
            /\ pageCount' = pageCount + 1
            /\ IF ~ret.page.hasMore
               THEN drain' = "ok" /\ pc' = "write"
               ELSE drain' = drain /\ pc' = "loop"
            /\ UNCHANGED result
    /\ ClientIdle
    /\ UNCHANGED <<entry, ctxDone, faulted, sinkVars>>
    /\ UNCHANGED <<cfg, isBackfill, chunked, startDate, endDate, qStart, ranges>>

\* Pager.NextPage after client.Costs returned, and the rest of the loop body of
\* fetchAndCollectRecords
FetchReturn ==
    /\ UNCHANGED <<sleepCancelled, run, clock, fn, ops>>
    /\ totalRecords' = (IF ret.ok THEN totalRecords + Len(RowsOfPage(ret.page.idx)) ELSE totalRecords)
    /\ entry = "Sync"
    /\ pc = "ret"
    /\ req = "costs"
    /\ IF ~ret.ok
       THEN /\ drain' = "error"
            /\ SyncFails("fetch", IsCancellation(ret))
            /\ UNCHANGED <<cursor, hasStarted, served, allRows, pageCount>>
       ELSE /\ hasStarted' = TRUE
            /\ cursor' = ret.page.next
            /\ served' = served + 1
            /\ allRows' = allRows \o RowsOfPage(ret.page.idx)
            /\ pageCount' = pageCount + 1
            /\ IF ~ret.page.hasMore
               THEN drain' = "ok" /\ pc' = "write"
               ELSE drain' = drain /\ pc' = "loop"
            /\ UNCHANGED result
    /\ ClientIdle
    /\ UNCHANGED <<entry, ctxDone, faulted, sinkVars>>
    /\ UNCHANGED <<cfg, isBackfill, chunked, startDate, endDate, qStart, ranges>>

\* a syncSingleRange that writes what it has and goes back for the pages left
WriteCostResumingFetch ==
    /\ UNCHANGED <<sleepCancelled, run, clock, fn, totalRecords>>
    /\ ops' = Append(ops, Op("write", 0))
    /\ pc = "write"
    /\ \E writeErr \in BOOLEAN :
        IF writeErr
        THEN /\ SyncFails("write", FALSE)
             /\ UNCHANGED <<writes, rangeWritten>>
        ELSE /\ writes' = Append(writes, [type |-> "cost", rows |-> allRows])
             /\ rangeWritten' = TRUE
             /\ pc' = IF HasMore THEN "loop" ELSE "bookmark"
             /\ UNCHANGED result
    /\ UNCHANGED <<entry, ctxDone, clientVars, pagerVars, bookmarks, bookmarks0, preBookmark,
                   getCalls, setCalls>>
    /\ UNCHANGED <<cfg, isBackfill, chunked, startDate, endDate, qStart, pageCount, ranges>>

\* a syncSingleRange that logs the error of sink.WriteRecords and carries on
WriteCostIgnoringError ==
    /\ UNCHANGED <<sleepCancelled, run, clock, fn, totalRecords>>
    /\ ops' = Append(ops, Op("write", 0))
    /\ pc = "write"
    /\ \E writeErr \in BOOLEAN :
        /\ writes' = IF writeErr THEN writes
                      ELSE Append(writes, [type |-> "cost", rows |-> allRows])
        /\ rangeWritten' = ~writeErr
    /\ pc' = "bookmark"
    /\ UNCHANGED <<entry, ctxDone, clientVars, pagerVars, bookmarks, bookmarks0, preBookmark,
                   getCalls, setCalls>>
    /\ UNCHANGED syncVars

\* syncSingleRange: sink.WriteRecords(ctx, allRecords)
WriteCost ==
    /\ UNCHANGED <<sleepCancelled, run, clock, fn, totalRecords>>
    /\ ops' = Append(ops, Op("write", 0))
    /\ pc = "write"
    /\ \E writeErr \in BOOLEAN :
        IF writeErr
        THEN /\ SyncFails("write", FALSE)
             /\ UNCHANGED <<writes, rangeWritten>>
        ELSE /\ writes' = Append(writes, [type |-> "cost", rows |-> allRows])
             /\ rangeWritten' = TRUE
             /\ pc' = "bookmark"
             /\ UNCHANGED result
    /\ UNCHANGED <<entry, ctxDone, clientVars, pagerVars, bookmarks, bookmarks0, preBookmark,
                   getCalls, setCalls>>
    /\ UNCHANGED <<cfg, isBackfill, chunked, startDate, endDate, qStart, pageCount, ranges>>

\* an updateBookmark whose SetBookmark error fails the range
UpdateBookmarkFailing ==
    /\ UNCHANGED <<sleepCancelled, run, clock, fn, totalRecords>>
    /\ ops' = (IF isBackfill THEN ops ELSE Append(ops, Op("bookmark", 0)))
    /\ pc = "bookmark"
    /\ IF isBackfill
       THEN /\ pc' = "forecast"
            /\ UNCHANGED <<bookmarks, setCalls, result>>
       ELSE /\ setCalls' = setCalls + 1
            /\ \E setErr \in BOOLEAN :
                IF setErr
                THEN /\ SyncFails("bookmark", FALSE)
                     /\ UNCHANGED bookmarks
                ELSE /\ bookmarks' = StoreBookmark(bookmarkKey, FormatRFC3339(endDate))
                     /\ pc' = "forecast"
                     /\ UNCHANGED result
    /\ UNCHANGED <<entry, ctxDone, clientVars, pagerVars, bookmarks0, preBookmark, writes,
                   getCalls, rangeWritten>>
    /\ UNCHANGED <<cfg, isBackfill, chunked, startDate, endDate, qStart, pageCount, ranges>>

\* an updateBookmark that does not look at isBackfill
UpdateBookmarkAlways ==
    /\ UNCHANGED <<sleepCancelled, run, clock, fn, totalRecords>>
    /\ ops' = Append(ops, Op("bookmark", 0))
    /\ pc = "bookmark"
    /\ setCalls' = setCalls + 1
    /\ \E setErr \in BOOLEAN :
        bookmarks' = IF setErr THEN bookmarks
                     ELSE StoreBookmark(bookmarkKey, FormatRFC3339(endDate))
    /\ pc' = "forecast"
    /\ UNCHANGED <<entry, ctxDone, clientVars, pagerVars, bookmarks0, preBookmark, writes,
                   getCalls, rangeWritten, syncVars>>

\* updateBookmark
UpdateBookmark ==
    /\ UNCHANGED <<sleepCancelled, run, clock, fn, totalRecords>>
    /\ ops' = (IF isBackfill THEN ops ELSE Append(ops, Op("bookmark", 0)))
    /\ pc = "bookmark"
    /\ IF isBackfill
       THEN UNCHANGED <<bookmarks, setCalls>>
       ELSE /\ setCalls' = setCalls + 1
            /\ \E setErr \in BOOLEAN :
                bookmarks' = IF setErr THEN bookmarks
                             ELSE StoreBookmark(bookmarkKey, FormatRFC3339(endDate))
    /\ pc' = "forecast"
    /\ UNCHANGED <<entry, ctxDone, clientVars, pagerVars, bookmarks0, preBookmark, writes,
                   getCalls, rangeWritten, syncVars>>

\* handleForecast and syncForecast up to the call of client.Forecast
HandleForecast ==
    /\ UNCHANGED <<sleepCancelled, run, clock, fn, ops, totalRecords>>
    /\ pc = "forecast"
    /\ IF ~cfg.includeForecast \/ ~cfg.reportToken
       THEN /\ pc' = "rangeend"
            /\ UNCHANGED clientVars
       ELSE StartRequest("forecast")
    /\ UNCHANGED <<entry, ctxDone, pagerVars, sinkVars, syncVars>>

\* a handleForecast that returns the error of client.Forecast to Sync
ForecastReturnPropagating ==
    /\ UNCHANGED <<sleepCancelled, run, clock, fn, ops>>
    /\ totalRecords' = (IF ret.ok THEN totalRecords + Len(ForecastRows) ELSE totalRecords)
    /\ pc = "ret"
    /\ req = "forecast"
    /\ IF ret.ok
       THEN pc' = "fwrite" /\ UNCHANGED result
       ELSE SyncFails("forecast", IsCancellation(ret))
    /\ ClientIdle
    /\ UNCHANGED <<entry, ctxDone, pagerVars, sinkVars>>
    /\ UNCHANGED <<cfg, isBackfill, chunked, startDate, endDate, qStart, pageCount, ranges>>

\* syncForecast after client.Forecast returned; an error is logged by handleForecast
ForecastReturn ==
    /\ UNCHANGED <<sleepCancelled, run, clock, fn, ops>>
    /\ totalRecords' = (IF ret.ok THEN totalRecords + Len(ForecastRows) ELSE totalRecords)
    /\ pc = "ret"
    /\ req = "forecast"
    /\ pc' = IF ret.ok THEN "fwrite" ELSE "rangeend"
    /\ ClientIdle
    /\ UNCHANGED <<entry, ctxDone, pagerVars, sinkVars, syncVars>>

\* syncForecast: sink.WriteRecords(ctx, forecastRecords); an error is logged by
\* handleForecast
WriteForecast ==
    /\ UNCHANGED <<sleepCancelled, run, clock, fn, totalRecords>>
    /\ ops' = Append(ops, Op("fwrite", 0))
    /\ pc = "fwrite"
    /\ \E writeErr \in BOOLEAN :
        writes' = IF writeErr THEN writes
                  ELSE Append(writes, [type |-> "forecast", rows |-> ForecastRows])
    /\ pc' = "rangeend"
    /\ UNCHANGED <<entry, ctxDone, clientVars, pagerVars, bookmarks, bookmarks0, preBookmark,
                   getCalls, setCalls, rangeWritten, syncVars>>

\* syncSingleRange returns nil: Sync returns nil, or syncChunked moves on to
\* the next chunk
RangeEnd ==
    /\ UNCHANGED <<sleepCancelled, run, clock, fn, ops, totalRecords>>
    /\ pc = "rangeend"
    /\ IF chunked /\ endDate < cfg.end
       THEN LET chunkEnd == FirstOfNextMonth(endDate) IN
            /\ startDate' = endDate
            /\ endDate' = IF chunkEnd > cfg.end THEN cfg.end ELSE chunkEnd
            /\ pc' = "range"
            /\ UNCHANGED result
       ELSE /\ result' = ReturnedNil
            /\ pc' = "done"
            /\ UNCHANGED <<startDate, endDate>>
    /\ UNCHANGED <<entry, ctxDone, clientVars, pagerVars, sinkVars>>
    /\ UNCHANGED <<cfg, isBackfill, chunked, qStart, pageCount, ranges>>

\* the caller invokes Sync again with the same adapter, sink and configuration,
\* and a fresh context, after an incremental Sync that returned nil
SyncAgain ==
    /\ entry = "Sync"
    /\ pc = "done"
    /\ ~cfg.endSet
    /\ result.kind = "nil"
    /\ run < MaxRuns
    /\ run' = run + 1
    /\ \E d \in ClockAdvances : clock' = clock + d
    /\ pc' = "idle"
    /\ ctxDone' = FALSE
    /\ sleepCancelled' = FALSE
    /\ result' = Running
    /\ cursor' = 0 /\ hasStarted' = FALSE /\ served' = 0 /\ faulted' = FALSE
    /\ allRows' = <<>> /\ drain' = "none"
    /\ startDate' = 0 /\ endDate' = 0 /\ qStart' = 0 /\ pageCount' = 0
    /\ ranges' = <<>>
    /\ bookmarks0' = bookmarks
    /\ writes' = <<>>
    /\ getCalls' = 0 /\ setCalls' = 0 /\ rangeWritten' = FALSE
    /\ ops' = <<>>
    /\ UNCHANGED <<entry, clientVars, cfg, isBackfill, chunked, bookmarks, preBookmark, fn,
                   totalRecords>>

----------------------------------------------------------------------------

InitClient ==
    /\ cfgMaxRetries \in 0..MaxRetriesCfg
    /\ maxRetries = NewMaxRetries(cfgMaxRetries)
    /\ req = "none" /\ attempt = 0 /\ calls = 0 /\ lastErr = NoErr
    /\ delay = 0 /\ ret = NoRet

InitPager ==
    /\ cursor = 0 /\ hasStarted = FALSE /\ served = 0 /\ faulted = FALSE
    /\ allRows = <<>>

IncrementalConfig ==
    [endSet : {FALSE}, start : {0}, end : {0}, includeForecast : BOOLEAN, reportToken : BOOLEAN]

BackfillConfig ==
    {[endSet |-> TRUE, start |-> r[1], end |-> r[2], includeForecast |-> f, reportToken |-> f] :
        r \in BackfillChoices, f \in BOOLEAN}

\* no function is being looked at on its own
NoCall == [op |-> "none"]

\* everything but the pager
InitCore ==
    /\ entry \in {"Sync", "AllPages"}
    /\ ctxDone = FALSE
    /\ sleepCancelled = FALSE
    /\ InitClient
    /\ IF entry = "AllPages"
       THEN /\ pc = "loop"
            /\ drain = "running"
            /\ cfg \in {c \in IncrementalConfig : ~c.includeForecast /\ ~c.reportToken}
            /\ preBookmark = BmNone
       ELSE /\ pc = "idle"
            /\ drain = "none"
            /\ cfg \in IncrementalConfig \cup BackfillConfig
            /\ preBookmark \in (IF cfg.endSet THEN {BmNone} ELSE PreBookmarks)
    /\ isBackfill = FALSE /\ chunked = FALSE
    /\ startDate = 0 /\ endDate = 0 /\ qStart = 0 /\ pageCount = 0
    /\ bookmarks = <<>>
    /\ bookmarks0 = <<>>
    /\ writes = <<>>
    /\ ranges = <<>>
    /\ run = 1
    /\ clock \in (IF entry = "Sync" /\ ~cfg.endSet THEN NowChoices ELSE {40 * Day})
    /\ getCalls = 0 /\ setCalls = 0 /\ rangeWritten = FALSE
    /\ result = Running
    /\ ops = <<>>
    /\ totalRecords = 0

InitProgram ==
    /\ InitCore
    /\ InitPager

Init ==
    /\ InitProgram
    /\ fn = NoCall

Next ==
    \/ TransportCall
    \/ TimerFires
    \/ SleepCancelled
    \/ Cancel
    \/ AllPagesLoop
    \/ AllPagesReturn
    \/ SyncStart
    \/ BeginRange
    \/ FetchLoop
    \/ FetchReturn
    \/ WriteCost
    \/ UpdateBookmark
    \/ HandleForecast
    \/ ForecastReturn
    \/ WriteForecast
    \/ RangeEnd

Spec == Init /\ [][Next]_vars

----------------------------------------------------------------------------
(* Mapping: GenerateLineItemID (adapter/idempotency.go).  A string is the
   sequence of its characters; a date and a formatted number are one character
   each. *)

MaxFieldLen == 2        \* dimension values are strings of at most MaxFieldLen characters

\* the characters in byte order, as sort.Strings compares them
CharOrder == <<",", "1", "2", ";", "=", "a", "b", "c", "u", "x", "|">>
CharRank(c) == CHOOSE i \in 1..Len(CharOrder) : CharOrder[i] = c

RECURSIVE StrLess(_, _)
StrLess(a, b) ==
    IF b = <<>> THEN FALSE
    ELSE IF a = <<>> THEN TRUE
    ELSE IF a[1] = b[1] THEN StrLess(Tail(a), Tail(b))
    ELSE CharRank(a[1]) < CharRank(b[1])

RECURSIVE InsertSorted(_, _)
InsertSorted(x, sorted) ==
    IF sorted = <<>> THEN <<x>>
    ELSE IF StrLess(sorted[1], x) THEN <<sorted[1]>> \o InsertSorted(x, Tail(sorted))
    ELSE <<x>> \o sorted

RECURSIVE SortStrings(_)
\* sort.Strings
SortStrings(strs) ==
    IF strs = <<>> THEN <<>> ELSE InsertSorted(strs[1], SortStrings(Tail(strs)))

RECURSIVE Join(_, _)
\* strings.Join
Join(strs, sep) ==
    IF strs = <<>> THEN <<>>
    ELSE IF Len(strs) = 1 THEN strs[1]
    ELSE strs[1] \o <<sep>> \o Join(Tail(strs), sep)

\* A float64 as far as its text is concerned: m stands for its first 16
\* significant digits, e for what lies beyond them (0.3 and
\* 0.30000000000000004 share m and differ in e).
Floats == [m : 0..1, e : 0..1]

\* fmt.Sprintf("%.16g", x)
Format16g(x) == <<ToString(x.m)>>

\* A time.Time: the instant t, in hours since 2024-01-01T00:00Z, and the
\* offset of its location in hours, as decoded from the bucket_start field
BucketStarts == [t : {1, 20, 25}, off : {-5, 0, 5}]

\* t.Format("2006-01-02"): the calendar date in the location of t
FormatDate(b) == <<ToString((b.t + b.off) \div 24)>>

\* the UTC calendar date of an instant
UTCDate(b) == b.t \div 24

\* fmt.Sprintf("%s=%s", k, v) for the tags in the order the map iteration yields them
RECURSIVE TagParts(_)
TagParts(tags) ==
    IF tags = <<>> THEN <<>>
    ELSE <<tags[1][1] \o <<"=">> \o tags[1][2]>> \o TagParts(Tail(tags))

\* sha256 of the text, first 16 bytes in hex: taken to be injective on the text
HashPrefix(text) == text

GenerateLineItemID(reportToken, row, metrics) ==
    LET tagText == IF Len(row.tags) > 0 THEN Join(SortStrings(TagParts(row.tags)), ";")
                   ELSE <<>>
        parts == <<reportToken, FormatDate(row.bucketStart),
                   row.provider, row.service, row.account, row.project, row.region,
                   row.resourceID, tagText, Join(SortStrings(metrics), ",")>>
                 \o [i \in 1..8 |-> Format16g(row.nums[i])]
                 \o <<row.usageUnit, row.currency>>
    IN  HashPrefix(Join(parts, "|"))

\* Inputs.  nums: Cost, UsageQuantity, EffectiveUnitPrice, ListCost,
\* AmortizedCost, Tax, Credit, Refund.  tags: the map as the sequence of its
\* <<key, value>> entries in iteration order.
BaseRow ==
    [bucketStart |-> [t |-> 1, off |-> 0],
     provider |-> <<"a">>, service |-> <<"b">>, account |-> <<"x">>, project |-> <<>>,
     region |-> <<"x">>, resourceID |-> <<"x">>, tags |-> <<>>,
     nums |-> [i \in 1..8 |-> [m |-> 1, e |-> 0]],
     usageUnit |-> <<"u">>, currency |-> <<"c">>]

FieldStrings == UNION {[1..n -> {"a", "|"}] : n \in 0..MaxFieldLen}

TagEntries == {<<"a">>, <<"b">>} \X {<<"1">>, <<"2">>, <<"1", ";", "b", "=", "2">>}

TagIterations ==
    {<<>>} \cup {<<kv>> : kv \in TagEntries}
    \cup {<<p[1], p[2]>> : p \in {q \in TagEntries \X TagEntries : q[1][1] # q[2][1]}}

MetricLists == {<<>>, <<<<"c">>>>, <<<<"u">>>>, <<<<"c">>, <<"u">>>>, <<<<"u">>, <<"c">>>>}

CostRows ==
    {[BaseRow EXCEPT !.provider = p, !.service = v] : p \in FieldStrings, v \in FieldStrings}
    \cup {[BaseRow EXCEPT !.tags = tg] : tg \in TagIterations}
    \cup {[BaseRow EXCEPT !.bucketStart = b] : b \in BucketStarts}
    \cup {[BaseRow EXCEPT !.nums[1] = x] : x \in Floats}

LineItemInputs ==
    [token : {<<"x">>}, row : CostRows, metrics : {<<<<"c">>>>}]
    \cup [token : {<<"x">>, <<"a">>}, row : {BaseRow}, metrics : MetricLists]

\* the call under study: GenerateLineItemID for two rows
InitLineItemID ==
    /\ InitProgram
    /\ entry = "AllPages"
    /\ cfgMaxRetries = MaxRetriesCfg
    /\ fn \in [op : {"GenerateLineItemID"}, a : LineItemInputs, b : LineItemInputs,
                done : {FALSE}, out : {<<>>}]

ApplyGenerateLineItemID ==
    /\ fn.op = "GenerateLineItemID"
    /\ ~fn.done
    /\ fn' = [fn EXCEPT !.done = TRUE,
                        !.out = <<GenerateLineItemID(fn.a.token, fn.a.row, fn.a.metrics),
                                  GenerateLineItemID(fn.b.token, fn.b.row, fn.b.metrics)>>]
    /\ UNCHANGED <<entry, pc, ctxDone, sleepCancelled, run, clock, ops, totalRecords>>
    /\ UNCHANGED <<clientVars, pagerVars, sinkVars, syncVars>>

NextLineItemID == ApplyGenerateLineItemID

SpecLineItemID == InitLineItemID /\ [][NextLineItemID]_vars

----------------------------------------------------------------------------
(* Mapping: mapVantageRowToCostRecord and addDiagnostics (adapter/mapping.go) *)

\* a *float64: nil, or the address of a value
NilPtr == [set |-> FALSE, v |-> 0]
PtrTo(x) == [set |-> TRUE, v |-> x]

\* record.Diagnostics = nil
NilDiagnostics == [nil |-> TRUE, MissingFields |-> {}, Warnings |-> <<>>]

\* Diagnostics.HasIssues
HasIssues(diag) == diag.MissingFields # {} \/ Len(diag.Warnings) > 0

MissingFieldsOf(record) ==
    (IF record.Provider = <<>> THEN {"provider"} ELSE {})
    \cup (IF record.Service = <<>> THEN {"service"} ELSE {})
    \cup (IF record.AccountID = <<>> THEN {"account_id"} ELSE {})
    \cup (IF record.Region = <<>> THEN {"region"} ELSE {})
    \cup (IF record.Currency = <<>> THEN {"currency"} ELSE {})
    \cup (IF ~record.NetCost.set \/ record.NetCost.v = 0 THEN {"net_cost"} ELSE {})

WarningsOf(record) ==
    (IF record.UsageAmount.set /\ record.UsageAmount.v # 0 /\ record.UsageUnit = <<>>
     THEN <<"usage_amount_present_but_unit_missing">> ELSE <<>>)
    \o (IF ~record.UsageAmount.set /\ record.UsageUnit # <<>>
        THEN <<"usage_unit_present_but_amount_missing">> ELSE <<>>)
    \o (IF record.NetCost.set /\ record.NetCost.v < 0
        THEN <<"negative_net_cost">> ELSE <<>>)
    \o (IF record.ListCost.set /\ record.NetCost.set /\ record.ListCost.v < record.NetCost.v
        THEN <<"list_cost_less_than_net_cost">> ELSE <<>>)
    \o (IF record.ResourceID = <<>> /\ record.Service # <<>>
        THEN <<"missing_resource_id">> ELSE <<>>)

\* addDiagnostics without its last step: the object stays on the record
addDiagnosticsKeepingObject(record) ==
    [record EXCEPT !.Diagnostics = [nil |-> FALSE,
                                    MissingFields |-> MissingFieldsOf(record),
                                    Warnings |-> WarningsOf(record)]]

addDiagnostics(record) ==
    LET diag == [nil |-> FALSE,
                 MissingFields |-> MissingFieldsOf(record),
                 Warnings |-> WarningsOf(record)]
    IN  [record EXCEPT !.Diagnostics = IF ~HasIssues(diag) THEN NilDiagnostics ELSE diag]

mapVantageRowToCostRecord(row) ==
    addDiagnostics(
        [Provider |-> row.provider, Service |-> row.service, AccountID |-> row.account,
         Region |-> row.region, ResourceID |-> row.resourceID, Currency |-> row.currency,
         UsageAmount |-> IF row.usageQuantity # 0 THEN PtrTo(row.usageQuantity) ELSE NilPtr,
         UsageUnit |-> row.usageUnit,
         ListCost |-> IF row.listCost # 0 THEN PtrTo(row.listCost) ELSE NilPtr,
         NetCost |-> IF row.cost # 0 THEN PtrTo(row.cost) ELSE NilPtr,
         Diagnostics |-> [nil |-> FALSE, MissingFields |-> {}, Warnings |-> <<>>]])

\* Inputs: each text field empty or not, the amounts around zero and around each other
TextChoices == {<<>>, <<"a">>}
MappedRows ==
    [provider : TextChoices, service : TextChoices, account : TextChoices,
     region : TextChoices, resourceID : TextChoices, currency : TextChoices,
     usageUnit : TextChoices, usageQuantity : {0, 1},
     cost : {-1, 0, 1, 2}, listCost : {0, 1, 2}]

InitMapping ==
    /\ InitProgram
    /\ entry = "AllPages"
    /\ cfgMaxRetries = MaxRetriesCfg
    /\ fn \in [op : {"mapVantageRowToCostRecord"}, row : MappedRows, done : {FALSE},
                out : {NilDiagnostics}]

ApplyMapVantageRowToCostRecord ==
    /\ fn.op = "mapVantageRowToCostRecord"
    /\ ~fn.done
    /\ fn' = [fn EXCEPT !.done = TRUE, !.out = mapVantageRowToCostRecord(fn.row)]
    /\ UNCHANGED <<entry, pc, ctxDone, sleepCancelled, run, clock, ops, totalRecords>>
    /\ UNCHANGED <<clientVars, pagerVars, sinkVars, syncVars>>

NextMapping == ApplyMapVantageRowToCostRecord

SpecMapping == InitMapping /\ [][NextMapping]_vars

(* The pager on its own: NewPager(client, query, logger) keeps the caller's
   query, cursor included, so a pager may start at a cursor *)

\* Query.Cursor as handed to NewPager: empty (0), or the cursor of a page
CallerCursors == 0..(MaxPages - 1)

InitPagerOf ==
    /\ InitCore
    /\ entry = "AllPages"
    /\ cursor \in CallerCursors
    /\ hasStarted = FALSE /\ served = 0 /\ faulted = FALSE
    /\ allRows = <<>>
    /\ fn = NoCall

NextPager ==
    \/ TransportCall
    \/ TimerFires
    \/ SleepCancelled
    \/ Cancel
    \/ AllPagesLoop
    \/ AllPagesReturn

SpecPager == InitPagerOf /\ [][NextPager]_vars

(* Configuration: ValidateConfig (adapter/config.go).  A text field is the
   sequence of its characters, a list the sequence of its entries. *)

maxPageSize == 10000

validGroupBys == {"provider", "service", "account", "project", "region", "resource_id", "tags"}
validMetrics ==
    {"cost", "usage", "effective_unit_price", "amortized_cost", "taxes", "credits", "refunds"}

\* the error ValidateConfig returns, by its message; "nil" for none
ValidateConfig(c) ==
    IF c.isNil THEN "config is nil"
    ELSE IF c.token = <<>> THEN "credentials.token is required"
    ELSE IF c.workspaceToken = <<>> /\ c.costReportToken = <<>>
    THEN "either workspace_token or cost_report_token must be specified in params"
    ELSE IF c.granularity = "" THEN "granularity must be specified in params"
    ELSE IF c.granularity # "day" /\ c.granularity # "month"
    THEN "granularity must be 'day' or 'month'"
    ELSE IF c.startDate.zero THEN "start_date must be a valid ISO date (YYYY-MM-DD)"
    ELSE IF c.endDate.set /\ c.endDate.day < c.startDate.day
    THEN "end_date must not be before start_date"
    ELSE IF c.pageSize < 1 THEN "page_size must be at least 1"
    ELSE IF c.pageSize > maxPageSize THEN "page_size cannot exceed"
    ELSE IF c.timeoutMs < 1000 THEN "timeout must be at least 1 second"
    ELSE IF c.maxRetries < 0 THEN "max_retries cannot be negative"
    ELSE IF \E i \in DOMAIN c.groupBys : c.groupBys[i] \notin validGroupBys
    THEN "invalid group_by value"
    ELSE IF \E i \in DOMAIN c.metrics : c.metrics[i] \notin validMetrics
    THEN "invalid metric value"
    ELSE "nil"

\* Inputs: each field on both sides of each test of ValidateConfig
Configs ==
    [isNil : {FALSE},
     token : {<<>>, <<"x">>},
     workspaceToken : {<<>>, <<"a">>}, costReportToken : {<<>>, <<"b">>},
     granularity : {"", "day", "month", "week"},
     startDate : {[zero |-> TRUE, day |-> 0], [zero |-> FALSE, day |-> 1]},
     endDate : {[set |-> FALSE, day |-> 0], [set |-> TRUE, day |-> 0], [set |-> TRUE, day |-> 2]},
     pageSize : {0, 1, maxPageSize, maxPageSize + 1},
     timeoutMs : {999, 1000},
     maxRetries : {-1, 0, 5},
     groupBys : {<<>>, <<"region", "zone">>},
     metrics : {<<>>, <<"cost", "price">>}]

NilConfig == [isNil |-> TRUE]

InitValidateConfig ==
    /\ InitProgram
    /\ entry = "AllPages"
    /\ cfgMaxRetries = MaxRetriesCfg
    /\ fn \in [op : {"ValidateConfig"}, c : Configs \cup {NilConfig}, done : {FALSE},
                out : {""}]

ApplyValidateConfig ==
    /\ fn.op = "ValidateConfig"
    /\ ~fn.done
    /\ fn' = [fn EXCEPT !.done = TRUE, !.out = ValidateConfig(fn.c)]
    /\ UNCHANGED <<entry, pc, ctxDone, sleepCancelled, run, clock, ops, totalRecords>>
    /\ UNCHANGED <<clientVars, pagerVars, sinkVars, syncVars>>

NextValidateConfig == ApplyValidateConfig

SpecValidateConfig == InitValidateConfig /\ [][NextValidateConfig]_vars

(* waitBeforeRetry on its own, for every attempt index.  The float64 values
   of the computation are m * 2^e ms with a whole m; time.Duration is an int64
   of nanoseconds. *)

MaxAttempt == 35        \* attempt indices 0..MaxAttempt

RECURSIVE Exceeds(_, _, _)
\* m * 2^e > n
Exceeds(m, e, n) == IF e = 0 THEN m > n ELSE Exceeds(m, e - 1, n \div 2)

\* m * 2^e ms is not below 2^63 ns, the end of the range of int64
\* (1 ms = 15625 * 2^6 ns)
OutOfInt64(m, e) == e >= 27 /\ (e >= 57 \/ m * 15625 >= Pow(2, 57 - e))

\* what time.Duration(x) is for a float64 x out of the range of int64: the
\* value depends on the implementation; MinInt64 on amd64, MaxInt64 on arm64
ConversionOutcomes == {"min", "max"}

\* the delay waitBeforeRetry hands to time.After, in ms, for the jitter draw r
\* (hundredths) and the outcomes c1, c2 of its two conversions should they be
\* out of range; -1 stands for a negative duration
waitBeforeRetryDelay(att, r, c1, c2) ==
    LET pct == 100 + ((r * jitterFractionPct) \div 100) - jitterOffsetPct
        m1 == (baseBackoffDelay * pct) \div 100
        d0 == IF OutOfInt64(baseBackoffDelay, att) THEN c1 ELSE "fin"
        d1 == IF d0 = "fin" THEN (IF OutOfInt64(m1, att) THEN c2 ELSE "fin")
              ELSE IF d0 = "max" THEN (IF pct >= 100 THEN c2 ELSE "max")
              ELSE (IF pct > 100 THEN c2 ELSE "min")
    IN  IF d1 = "fin"
        THEN IF Exceeds(m1, att, maxBackoffDelay) THEN maxBackoffDelay
             ELSE m1 * Pow(exponentialBase, att)
        ELSE IF d1 = "max" THEN maxBackoffDelay
        ELSE -1

\* how long <-time.After(d) blocks: not at all for a negative d
SleepOf(d) == IF d < 0 THEN 0 ELSE d

InitBackoff ==
    /\ InitProgram
    /\ entry = "AllPages"
    /\ cfgMaxRetries = MaxRetriesCfg
    /\ fn \in [op : {"waitBeforeRetry"}, attempt : 0..MaxAttempt, r : JitterDraws,
                c1 : ConversionOutcomes, c2 : ConversionOutcomes, done : {FALSE}, out : {0}]

ApplyWaitBeforeRetry ==
    /\ fn.op = "waitBeforeRetry"
    /\ ~fn.done
    /\ fn' = [fn EXCEPT !.done = TRUE,
                        !.out = SleepOf(waitBeforeRetryDelay(fn.attempt, fn.r, fn.c1, fn.c2))]
    /\ UNCHANGED <<entry, pc, ctxDone, sleepCancelled, run, clock, ops, totalRecords>>
    /\ UNCHANGED <<clientVars, pagerVars, sinkVars, syncVars>>

NextBackoff == ApplyWaitBeforeRetry

SpecBackoff == InitBackoff /\ [][NextBackoff]_vars

(* Mapping: normalizeTags (adapter/tags.go).  A map is given by the sequence
   of its <<key, value>> entries in the order the range statement yields
   them, which Go leaves open. *)

\* strings.ToLower, by character
ToLowerChar(c) ==
    CASE c = "E" -> "e"
      [] c = "U" -> "u"
      [] OTHER -> c

\* strings.ReplaceAll(key, "_", "-") and (key, " ", "-"), by character
HyphenChar(c) == IF c = "_" \/ c = " " THEN "-" ELSE c

RECURSIVE CollapseHyphens(_)
\* for strings.Contains(key, "--") { key = strings.ReplaceAll(key, "--", "-") }
CollapseHyphens(s) ==
    IF Len(s) < 2 THEN s
    ELSE IF s[1] = "-" /\ s[2] = "-" THEN CollapseHyphens(Tail(s))
    ELSE <<s[1]>> \o CollapseHyphens(Tail(s))

RECURSIVE TrimLeft(_)
TrimLeft(s) == IF s # <<>> /\ s[1] = "-" THEN TrimLeft(Tail(s)) ELSE s

RECURSIVE TrimRight(_)
TrimRight(s) ==
    IF s # <<>> /\ s[Len(s)] = "-" THEN TrimRight(SubSeq(s, 1, Len(s) - 1)) ELSE s

normalizeTagKey(key) ==
    LET lower == [i \in 1..Len(key) |-> ToLowerChar(key[i])]
        hyph  == [i \in 1..Len(lower) |-> HyphenChar(lower[i])]
    IN  TrimRight(TrimLeft(CollapseHyphens(hyph)))

\* the positions at which sub occurs in s
Occurrences(s, sub) ==
    {i \in 1..(Len(s) - Len(sub) + 1) : SubSeq(s, i, i + Len(sub) - 1) = sub}

\* regexp `.*first.*second.*`
MatchesInOrder(s, first, second) ==
    \E i \in Occurrences(s, first) : \E j \in Occurrences(s, second) : j >= i + Len(first)

\* the allow list comes after the deny list and ends in `return true`
shouldIncludeTag(key) ==
    ~ \/ MatchesInOrder(key, <<"p", "o", "d">>, <<"u", "i", "d">>)
      \/ MatchesInOrder(key, <<"c", "o", "n", "t", "a", "i", "n", "e", "r">>, <<"i", "d">>)
      \/ MatchesInOrder(key, <<"n", "o", "d", "e">>, <<"n", "a", "m", "e">>)

\* the map as a set of <<key, value>> entries, with normalized[k] = v done
Assign(map, k, v) == {kv \in map : kv[1] # k} \cup {<<k, v>>}

RECURSIVE normalizeEntries(_, _)
normalizeEntries(entries, normalized) ==
    IF entries = <<>> THEN normalized
    ELSE LET normalizedKey == normalizeTagKey(entries[1][1]) IN
         normalizeEntries(Tail(entries),
                          IF shouldIncludeTag(normalizedKey)
                          THEN Assign(normalized, normalizedKey, entries[1][2])
                          ELSE normalized)

normalizeTags(tags) ==
    IF tags.isNil THEN [isNil |-> TRUE, entries |-> {}]
    ELSE [isNil |-> FALSE, entries |-> normalizeEntries(tags.order, {})]

\* Inputs: maps of up to two tags
RawTagKeys ==
    {<<"E">>, <<"e">>, <<"e", "_">>, <<"_", "e", " ", "_", "U">>,
     <<"p", "o", "d", "_", "U", "i", "d">>}
RawTagEntries == RawTagKeys \X {<<"1">>, <<"2">>}

\* the orders in which the entries of a map may be yielded
RawTagOrders ==
    {<<>>} \cup {<<kv>> : kv \in RawTagEntries}
    \cup {<<p[1], p[2]>> : p \in {q \in RawTagEntries \X RawTagEntries : q[1][1] # q[2][1]}}

RECURSIVE Reverse(_)
Reverse(s) == IF s = <<>> THEN <<>> ELSE Reverse(Tail(s)) \o <<s[1]>>

\* the call under study: normalizeTags for one map, iterated in two orders
InitNormalizeTags ==
    /\ InitProgram
    /\ entry = "AllPages"
    /\ cfgMaxRetries = MaxRetriesCfg
    /\ \E o \in RawTagOrders, n \in BOOLEAN :
        fn = [op |-> "normalizeTags",
              a |-> [isNil |-> n /\ o = <<>>, order |-> o],
              b |-> [isNil |-> n /\ o = <<>>, order |-> Reverse(o)],
              done |-> FALSE, out |-> <<>>]

ApplyNormalizeTags ==
    /\ fn.op = "normalizeTags"
    /\ ~fn.done
    /\ fn' = [fn EXCEPT !.done = TRUE, !.out = <<normalizeTags(fn.a), normalizeTags(fn.b)>>]
    /\ UNCHANGED <<entry, pc, ctxDone, sleepCancelled, run, clock, ops, totalRecords>>
    /\ UNCHANGED <<clientVars, pagerVars, sinkVars, syncVars>>

NextNormalizeTags == ApplyNormalizeTags

SpecNormalizeTags == InitNormalizeTags /\ [][NextNormalizeTags]_vars

(* The two drains side by side: Pager.AllPages (client/pager.go) and
   fetchAndCollectRecords (adapter/adapter.go), each with a pager of its own,
   against one server.  A stream is the sequence of the pages the server
   holds: cursor c leads to page c + 1; failAt names the page whose request
   the client gives up on (0: none). *)

PageStreams ==
    UNION {[1..n -> [next : 0..MaxPages, hasMore : BOOLEAN]] : n \in 1..MaxPages}

\* the next cursor of page i is empty or leads to page i + 1, within the stream
FiniteStreams ==
    {s \in PageStreams : \A i \in 1..Len(s) : s[i].next = 0 \/ (s[i].next = i /\ i < Len(s))}

DrainFailed(sent) == [ok |-> FALSE, rows |-> <<>>, sent |-> sent]

RECURSIVE AllPagesDrain(_, _, _, _, _, _)
\* Pager.AllPages: for p.HasMore() || p.query.Cursor == "" { NextPage; append; break }
AllPagesDrain(stream, failAt, cur, started, rows, sent) ==
    IF cur # 0 \/ cur = 0
    THEN IF started /\ cur = 0 THEN DrainFailed(sent)
         ELSE IF failAt = cur + 1 THEN DrainFailed(Append(sent, cur))
         ELSE LET page == stream[cur + 1]
                  got  == rows \o RowsOfPage(cur + 1)
              IN  IF ~page.hasMore THEN [ok |-> TRUE, rows |-> got, sent |-> Append(sent, cur)]
                  ELSE AllPagesDrain(stream, failAt, page.next, TRUE, got, Append(sent, cur))
    ELSE [ok |-> TRUE, rows |-> rows, sent |-> sent]

RECURSIVE FetchDrain(_, _, _, _, _, _, _)
\* fetchAndCollectRecords: for pager.HasMore() || pageCount == 0 { NextPage; append;
\* pageCount++; break }
FetchDrain(stream, failAt, cur, started, count, rows, sent) ==
    IF cur # 0 \/ count = 0
    THEN IF started /\ cur = 0 THEN DrainFailed(sent)
         ELSE IF failAt = cur + 1 THEN DrainFailed(Append(sent, cur))
         ELSE LET page == stream[cur + 1]
                  got  == rows \o RowsOfPage(cur + 1)
              IN  IF ~page.hasMore THEN [ok |-> TRUE, rows |-> got, sent |-> Append(sent, cur)]
                  ELSE FetchDrain(stream, failAt, page.next, TRUE, count + 1, got,
                                  Append(sent, cur))
    ELSE [ok |-> TRUE, rows |-> rows, sent |-> sent]

InitDrains ==
    /\ InitProgram
    /\ entry = "AllPages"
    /\ cfgMaxRetries = MaxRetriesCfg
    /\ \E s \in FiniteStreams : \E f \in 0..Len(s) :
        fn = [op |-> "drains", stream |-> s, failAt |-> f, done |-> FALSE, out |-> <<>>]

ApplyDrains ==
    /\ fn.op = "drains"
    /\ ~fn.done
    /\ fn' = [fn EXCEPT !.done = TRUE,
                        !.out = <<AllPagesDrain(fn.stream, fn.failAt, 0, FALSE, <<>>, <<>>),
                                  FetchDrain(fn.stream, fn.failAt, 0, FALSE, 0, <<>>, <<>>)>>]
    /\ UNCHANGED <<entry, pc, ctxDone, sleepCancelled, run, clock, ops, totalRecords>>
    /\ UNCHANGED <<clientVars, pagerVars, sinkVars, syncVars>>

NextDrains == ApplyDrains

SpecDrains == InitDrains /\ [][NextDrains]_vars

(* Pager.NextPage on its own: a caller that holds a pager made by NewPager for
   a query without a cursor and calls NextPage again and again, whatever the
   call before returned; drain is "error" when the last call returned an error *)

InitNextPage ==
    /\ entry = "NextPage"
    /\ pc = "loop"
    /\ ctxDone = FALSE
    /\ sleepCancelled = FALSE
    /\ InitClient
    /\ InitPager
    /\ drain = "running"
    /\ cfg \in {c \in IncrementalConfig : ~c.includeForecast /\ ~c.reportToken}
    /\ preBookmark = BmNone
    /\ isBackfill = FALSE /\ chunked = FALSE
    /\ startDate = 0 /\ endDate = 0 /\ qStart = 0 /\ pageCount = 0
    /\ bookmarks = <<>>
    /\ bookmarks0 = <<>>
    /\ writes = <<>>
    /\ ranges = <<>>
    /\ run = 1
    /\ clock = 40 * Day
    /\ getCalls = 0 /\ setCalls = 0 /\ rangeWritten = FALSE
    /\ result = Running
    /\ ops = <<>>
    /\ totalRecords = 0
    /\ fn = NoCall

\* Pager.NextPage up to client.Costs: the guard, and the request for the
\* pager's cursor
NextPageCall ==
    /\ UNCHANGED <<sleepCancelled, run, clock, fn, ops, totalRecords>>
    /\ entry = "NextPage"
    /\ pc = "loop"
    /\ IF NextPageRefuses
       THEN /\ drain' = "error"
            /\ UNCHANGED <<pc, clientVars, cursor, hasStarted, served, faulted, allRows>>
       ELSE /\ StartRequest("costs")
            /\ UNCHANGED pagerVars
    /\ UNCHANGED <<entry, ctxDone, sinkVars, syncVars>>

\* a NextPage that marks the pager as started before it looks at the error
NextPageReturnMarkingStarted ==
    /\ UNCHANGED <<sleepCancelled, run, clock, fn, ops, totalRecords>>
    /\ entry = "NextPage"
    /\ pc = "ret"
    /\ hasStarted' = TRUE
    /\ IF ~ret.ok
       THEN /\ drain' = "error"
            /\ UNCHANGED <<cursor, served, allRows>>
       ELSE /\ cursor' = ret.page.next
            /\ served' = served + 1
            /\ allRows' = allRows \o RowsOfPage(ret.page.idx)
            /\ drain' = "running"
    /\ pc' = "loop"
    /\ ClientIdle
    /\ UNCHANGED <<entry, ctxDone, faulted, sinkVars, syncVars>>

\* Pager.NextPage after client.Costs returned; the caller keeps the rows of
\* the page it is given
NextPageReturn ==
    /\ UNCHANGED <<sleepCancelled, run, clock, fn, ops, totalRecords>>
    /\ entry = "NextPage"
    /\ pc = "ret"
    /\ IF ~ret.ok
       THEN /\ drain' = "error"
            /\ UNCHANGED <<cursor, hasStarted, served, allRows>>
       ELSE /\ hasStarted' = TRUE
            /\ cursor' = ret.page.next
            /\ served' = served + 1
            /\ allRows' = allRows \o RowsOfPage(ret.page.idx)
            /\ drain' = "running"
    /\ pc' = "loop"
    /\ ClientIdle
    /\ UNCHANGED <<entry, ctxDone, faulted, sinkVars, syncVars>>

NextNextPage ==
    \/ TransportCall
    \/ TimerFires
    \/ SleepCancelled
    \/ Cancel
    \/ NextPageCall
    \/ NextPageReturn

SpecNextPage == InitNextPage /\ [][NextNextPage]_vars

\* Backfill: Sync with a configured end date, under the scheduling of the
\* program: the thread of Sync runs on, a request is answered or fails, a
\* timer fires
InitBackfill ==
    /\ Init
    /\ entry = "Sync"
    /\ cfg.endSet

NextBackfill ==
    \/ TransportCall
    \/ TimerFires
    \/ SleepCancelled
    \/ Cancel
    \/ SyncStart
    \/ BeginRange
    \/ FetchLoop
    \/ FetchReturn
    \/ WriteCost
    \/ UpdateBookmark
    \/ HandleForecast
    \/ ForecastReturn
    \/ WriteForecast
    \/ RangeEnd

SpecBackfill == InitBackfill /\ [][NextBackfill]_vars /\ WF_vars(NextBackfill)

\* Repeated invocation: an incremental configuration whose Sync the caller
\* invokes up to MaxRuns times on the same sink
InitResume ==
    /\ Init
    /\ entry = "Sync"
    /\ ~cfg.endSet
    /\ cfgMaxRetries = MaxRetriesCfg
    /\ preBookmark = BmNone

NextResume ==
    \/ TransportCall
    \/ TimerFires
    \/ SleepCancelled
    \/ Cancel
    \/ SyncStart
    \/ BeginRange
    \/ FetchLoop
    \/ FetchReturn
    \/ WriteCost
    \/ UpdateBookmark
    \/ HandleForecast
    \/ ForecastReturn
    \/ WriteForecast
    \/ RangeEnd
    \/ SyncAgain

SpecResume == InitResume /\ [][NextResume]_vars

----------------------------------------------------------------------------
(* Properties *)

\* the request in progress has just returned to its caller
Returned == pc = "ret"

Is4xxNot429(err) == err.kind = "http" /\ err.status >= 400 /\ err.status <= 499 /\ err.status # 429
Is5xx(err) == err.kind = "http" /\ err.status >= 500 /\ err.status <= 599
IsTransient5xx(err) == err.kind = "http" /\ err.status \in {500, 502, 503, 504}

\* C1: a logical request (one Costs or Forecast call) makes at most
\* 1 + the configured max_retries transport calls, whatever the server answers.
C1_RetryBudget == calls <= 1 + cfgMaxRetries

\* C2: in a non-backfill range sync SetBookmark is called only after the
\* WriteRecords call for the range's cost records returned nil; when page
\* fetching or WriteRecords fails, Sync returns that error, SetBookmark has not
\* been called and the bookmark store is as it was.
C2_BookmarkOnlyAfterWrite ==
    (entry = "Sync" /\ ~cfg.endSet) =>
        /\ setCalls > 0 => rangeWritten
        /\ result.kind = "error" =>
            /\ result.stage \in {"fetch", "write"}
            /\ setCalls = 0
            /\ bookmarks = bookmarks0

\* C2 witness: a non-backfill sync whose WriteRecords call failed after its
\* pages were fetched
C2_Witness ==
    /\ entry = "Sync" /\ ~cfg.endSet
    /\ result.kind = "error" /\ result.stage = "write"
    /\ served >= 2

C4_DrainComplete ==
    (drain \in {"ok", "error"} /\ ~faulted) =>
        /\ drain = "ok"
        /\ cursor = 0
        /\ allRows = RowsOfPages(served)

\* C5: once the context has been cancelled during a retry sleep of a request
\* issued during a sync, the sleep ends without the timer, no further transport
\* call is attempted and Sync returns a cancellation error.
C5_CancelledSleepFailsSync ==
    (entry = "Sync" /\ sleepCancelled) =>
        /\ ~ENABLED TimerFires
        /\ pc # "attempt"
        /\ pc = "done" => (result.kind = "error" /\ result.cancel)

\* C6: a 4xx response other than 429 is never retried, whatever its body: the
\* request returns the error at once, without sleeping, and a first response of
\* that kind leaves the transport called exactly once.
C6_Permanent4xxNotRetried ==
    Is4xxNot429(lastErr) =>
        /\ Returned /\ ret.kind = "failed"
        /\ attempt = 0 => calls = 1

\* C7: the sleep that follows a 429 carrying a reset hint of d seconds lasts at
\* least max(d, the computed back-off), so the next transport call comes no
\* earlier than that after the 429.
C7_RateLimitHintHonoured ==
    [][(pc = "sleep" /\ pc' = "attempt" /\ lastErr.kind = "rl")
        => delay >= Max(lastErr.hint * 1000, delay)]_vars

\* C8: every 429 response, with or without a parseable reset header, is
\* retried while retry budget remains: a request gives up on a 429 only when its
\* attempts are used up.
C8_Every429Retried ==
    (Returned /\ ret.kind = "failed" /\ lastErr.status = 429) => attempt >= maxRetries

C10_ZeroDisablesRetries ==
    cfgMaxRetries = 0 => (calls <= 1 /\ pc # "sleep")

\* C11: incremental sync is resumable: a later incremental Sync, invoked with
\* the same configuration after one whose SetBookmark stored a bookmark, calls
\* GetBookmark with a key under which the store holds that bookmark.
C11_ResumesUnderSameKey ==
    (run > 1 /\ getCalls > 0 /\ bookmarks0 # <<>>) => bookmarkKey \in DOMAIN bookmarks0

\* C12: during a backfill Sync, run as a single range or in chunks, neither
\* GetBookmark nor SetBookmark is called and the bookmark store stays as it was.
C12_BackfillIgnoresBookmarks ==
    (entry = "Sync" /\ cfg.endSet) =>
        /\ getCalls = 0
        /\ setCalls = 0
        /\ bookmarks = bookmarks0

\* C12 witness: a chunked backfill has returned nil after writing two chunks
C12_Witness ==
    /\ entry = "Sync" /\ cfg.endSet /\ chunked
    /\ result.kind = "nil"
    /\ Len(ranges) >= 2 /\ Len(writes) >= 2

\* the forecast branch of the current range has ended without a forecast batch
\* stored: client.Forecast or the forecast WriteRecords returned an error
ForecastFailed ==
    /\ cfg.includeForecast /\ cfg.reportToken
    /\ pc \in {"rangeend", "done"}
    /\ rangeWritten
    /\ writes[Len(writes)].type = "cost"

\* C13: a forecast failure never fails the sync: once the cost records of a
\* range are written, the range sync succeeds whatever the forecast fetch and
\* the forecast write return, and a Sync that ends there returns nil, as it
\* does with forecasting disabled.
C13_ForecastFailureSwallowed ==
    /\ (entry = "Sync" /\ pc = "rangeend") => (rangeWritten /\ result = Running)
    /\ (entry = "Sync" /\ pc = "done" /\ rangeWritten) => result.kind = "nil"

\* C13 witness: Sync has returned nil although the forecast of its range failed
C13_Witness == entry = "Sync" /\ pc = "done" /\ ForecastFailed /\ result.kind = "nil"

\* SetBookmark was called by this non-backfill Sync and returned an error
SetBookmarkFailed ==
    /\ entry = "Sync" /\ ~cfg.endSet
    /\ setCalls > 0
    /\ bookmarkKey \notin DOMAIN bookmarks

\* C14: a SetBookmark error after the cost records were written is only
\* logged: the sync goes on into the forecast branch, and Sync returns nil.
C14_BookmarkFailureSwallowed ==
    SetBookmarkFailed =>
        /\ rangeWritten
        /\ pc \in {"forecast", "attempt", "sleep", "ret", "fwrite", "rangeend", "done"}
        /\ pc = "forecast" => ENABLED HandleForecast
        /\ pc \in {"attempt", "sleep", "ret"} => req = "forecast"
        /\ pc = "done" => result.kind = "nil"

\* C14 witness: Sync has returned nil after a failed SetBookmark, with the
\* forecast fetched and written
C14_Witness ==
    /\ SetBookmarkFailed
    /\ pc = "done" /\ result.kind = "nil"
    /\ writes[Len(writes)].type = "forecast"

\* C15: when a request of the sync returns because the context was cancelled
\* while it was waiting (a cost or forecast request in flight, or a retry sleep
\* of either), Sync returns a cancellation error.
C15_CancellationPropagates ==
    [][(entry = "Sync" /\ pc = "ret" /\ IsCancellation(ret))
        => (result'.kind = "error" /\ result'.cancel)]_vars

\* C16: in chunked execution an error of the range sync of a chunk makes Sync
\* return an error wrapping it, and nothing is done for a later chunk: no
\* range is begun, no transport call, sink write or bookmark operation follows.
C16_ChunkErrorAborts ==
    (entry = "Sync" /\ chunked /\ result.kind = "error") =>
        /\ pc = "done"
        /\ result.chunk
        /\ ~ENABLED (BeginRange \/ TransportCall \/ WriteCost \/ UpdateBookmark \/ WriteForecast)

\* C16 witness: a chunked backfill has failed in a chunk that is not the last
C16_Witness ==
    /\ entry = "Sync" /\ chunked
    /\ result.kind = "error" /\ pc = "done"
    /\ endDate < cfg.end

IsMonthStart(t) == t % Day = 0 /\ (t \div Day) \in MonthStartDays

\* C17: in chunked execution the first range starts at the first of the month
\* that contains the start date, every range ends at the next first of a month
\* or at the overall end, whichever comes first, every further range starts
\* where the previous one ended, and the last range of a Sync that returned nil
\* ends at the overall end; 2024-01-01 to 2024-03-01 gives exactly
\* [2024-01-01, 2024-02-01] and [2024-02-01, 2024-03-01].
C17_ChunkRanges ==
    (entry = "Sync" /\ chunked) =>
        /\ \A i \in 1..Len(ranges) :
            /\ IsMonthStart(ranges[i][1])
            /\ ranges[i][1] < ranges[i][2]
            /\ ranges[i][2] <= cfg.end
            /\ ranges[i][2] = cfg.end \/ IsMonthStart(ranges[i][2])
            /\ \A d \in MonthStartDays : ~(ranges[i][1] < d * Day /\ d * Day < ranges[i][2])
            /\ i = 1 => (ranges[i][1] <= cfg.start /\ cfg.start < ranges[i][2])
            /\ i > 1 => ranges[i][1] = ranges[i - 1][2]
        /\ result.kind = "nil" => (ranges # <<>> /\ ranges[Len(ranges)][2] = cfg.end)
        /\ (result.kind = "nil" /\ cfg.start = 0 /\ cfg.end = 60 * Day) =>
                ranges = << <<0, 31 * Day>>, <<31 * Day, 60 * Day>> >>

\* C17 witness: the chunked backfill of 2024-01-01 to 2024-03-01 has returned nil
C17_Witness ==
    /\ entry = "Sync" /\ chunked /\ result.kind = "nil"
    /\ cfg.start = 0 /\ cfg.end = 60 * Day
    /\ Len(ranges) = 2

\* C18: the terminal signal is the empty next-cursor: a drain (the fetch loop
\* or AllPages) ends without error only after a response with an empty
\* next-cursor, whatever the has_more flags say.
C18_DrainEndsOnEmptyCursor == drain = "ok" => cursor = 0

CostBatches == SelectSeq(writes, LAMBDA b : b.type = "cost")

\* C19: the cost records of a range whose pages P1..PK were fetched are handed
\* to the sink in exactly one WriteRecords call, as the rows of P1 in received
\* order, then those of P2, and so on up to PK.
C19_OneWriteInPageOrder ==
    (entry = "Sync" /\ ranges # <<>>) =>
        IF rangeWritten
        THEN /\ Len(CostBatches) = Len(ranges)
             /\ CostBatches[Len(CostBatches)].rows = RowsOfPages(served)
        ELSE Len(CostBatches) = Len(ranges) - 1

\* C19 witness: the records of a range of two pages, one row then two rows,
\* have been written
C19_Witness ==
    /\ entry = "Sync" /\ rangeWritten
    /\ served = 2 /\ Len(allRows) = 3
    /\ CostBatches # <<>>

\* C20: no log entry and no error message of a request contains a configured
\* token: the URL is logged with its token parameters and report-token path
\* segment replaced, and the error returned for a failed request, a failure of
\* the HTTP request at the network level included, holds none of them.
C20_NoTokenInLogsOrErrors ==
    req # "none" =>
        /\ ~ContainsToken(LoggedURL(req))
        /\ lastErr # NoErr => ~ContainsToken(ErrorText(lastErr, req))

Range(f) == {f[i] : i \in DOMAIN f}

\* two inputs of GenerateLineItemID agree on every identifier input
InputsAgree(x, y) ==
    /\ x.token = y.token
    /\ UTCDate(x.row.bucketStart) = UTCDate(y.row.bucketStart)
    /\ x.row.provider = y.row.provider /\ x.row.service = y.row.service
    /\ x.row.account = y.row.account /\ x.row.project = y.row.project
    /\ x.row.region = y.row.region /\ x.row.resourceID = y.row.resourceID
    /\ Range(x.row.tags) = Range(y.row.tags)
    /\ Range(x.metrics) = Range(y.metrics)
    /\ x.row.nums = y.row.nums
    /\ x.row.usageUnit = y.row.usageUnit /\ x.row.currency = y.row.currency

LineItemIDsDone == fn.op = "GenerateLineItemID" /\ fn.done

\* C21: the line item identifiers of two rows are equal if and only if the
\* rows agree on all identifier inputs; the iteration order of the tags and
\* the order of the metrics do not matter.
C21_IdEqualIffInputsAgree ==
    LineItemIDsDone => ((fn.out[1] = fn.out[2]) <=> InputsAgree(fn.a, fn.b))

\* C22: two rows that differ only in bucket_start, by time of day or zone
\* offset, and whose instants fall on the same UTC calendar date, get the same
\* identifier.
C22_SameUTCDateSameId ==
    (/\ LineItemIDsDone
     /\ [fn.a.row EXCEPT !.bucketStart = fn.b.row.bucketStart] = fn.b.row
     /\ fn.a.token = fn.b.token /\ fn.a.metrics = fn.b.metrics
     /\ UTCDate(fn.a.row.bucketStart) = UTCDate(fn.b.row.bucketStart))
        => fn.out[1] = fn.out[2]

RecordMapped == fn.op = "mapVantageRowToCostRecord" /\ fn.done

\* the vendor row has every required field, consistent usage, a positive net
\* cost not above the list cost, and a resource id (zero counts as absent)
CompleteRow(row) ==
    /\ row.provider # <<>> /\ row.service # <<>> /\ row.account # <<>>
    /\ row.region # <<>> /\ row.currency # <<>>
    /\ row.cost > 0
    /\ (row.usageQuantity # 0) <=> (row.usageUnit # <<>>)
    /\ row.listCost >= row.cost
    /\ row.resourceID # <<>>

RetryableOutcome(err) == err.kind = "rl" \/ err.has5xx

\* C24: when every one of the 1 + max_retries attempts of a request failed
\* with a retryable outcome, the returned error names 1 + max_retries
\* attempts and wraps the error of the final attempt.
C24_ExhaustionNamesAttemptsAndCause ==
    (/\ pc = "ret" /\ ret.kind = "failed"
     /\ calls >= 1 + cfgMaxRetries
     /\ RetryableOutcome(ret.cause))
        => (ret.said = 1 + cfgMaxRetries /\ ret.cause = lastErr)

\* C25: a network failure other than a cancellation is retried, after a
\* back-off sleep, while the configured budget remains: the request returns it
\* as the final error only once max_retries retries were made.
C25_NetworkFailureRetried ==
    (Returned /\ ret.kind = "failed" /\ ret.cause.kind = "net") => attempt >= cfgMaxRetries

Terminal == hasStarted /\ cursor = 0

\* C27: from a pager that is terminal no cost request is started any more, and
\* a NextPage call (the drain of AllPages makes one) returns an error.
C27_TerminalPagerRefuses ==
    [][Terminal =>
        /\ req' # "costs"
        /\ (entry = "AllPages" /\ pc = "loop" /\ pc' # "loop") => drain' = "error"]_vars

C27_Witness ==
    entry = "AllPages" /\ Terminal /\ pc = "done" /\ drain = "error" /\ req = "none"

DayAligned(t) == t % Day = 0
StartOfDay(t) == (t \div Day) * Day

\* C28: the start and end instants of every query sent to the cost endpoint
\* are day-aligned, and the incremental window is [today - 3d, today - 1d]
\* for the UTC day of the invocation.
C28_QueriesDayAligned ==
    (entry = "Sync" /\ req = "costs") =>
        /\ DayAligned(qStart) /\ DayAligned(endDate)
        /\ ~isBackfill =>
            /\ startDate = StartOfDay(clock) - 3 * Day
            /\ endDate = StartOfDay(clock) - Day

ConfigValidated == fn.op = "ValidateConfig" /\ fn.done

\* C29: a configuration with neither or with both of workspace_token and
\* cost_report_token is rejected.
C29_ExactlyOneScopeToken ==
    (ConfigValidated /\ ~fn.c.isNil
     /\ ((fn.c.workspaceToken = <<>>) <=> (fn.c.costReportToken = <<>>)))
        => fn.out # "nil"

Stage(e) ==
    CASE e.op = "fetch" -> 1
      [] e.op = "write" -> 2
      [] e.op = "bookmark" -> 3
      [] e.op = "forecast" -> 4
      [] e.op = "fwrite" -> 5

\* the calls of a range are in the order of syncSingleRange, each after the
\* one it follows there
InOrder(log) ==
    /\ log # <<>> => log[1].op = "fetch"
    /\ \A i \in 1..(Len(log) - 1) :
        \/ log[i].op = "fetch" /\ log[i + 1].op = "fetch" /\ log[i].cursor < log[i + 1].cursor
        \/ log[i].op = "fetch" /\ log[i + 1].op = "write"
        \/ log[i].op = "write" /\ log[i + 1].op = "bookmark" /\ ~isBackfill
        \/ log[i].op = "write" /\ log[i + 1].op = "forecast" /\ isBackfill
        \/ log[i].op = "bookmark" /\ log[i + 1].op = "forecast"
        \/ log[i].op = "forecast" /\ log[i + 1].op = "fwrite"

\* nothing of the range is left to do or in progress
RangeComplete ==
    /\ req = "none"
    /\ ops # <<>>
    /\ Stage(ops[Len(ops)]) >= (IF isBackfill THEN 2 ELSE 3)

\* C30: in every range sync the calls come in the order cost page fetches (by
\* cursor), WriteRecords of the cost records, SetBookmark (not in a backfill),
\* forecast fetch, WriteRecords of the forecast records; and a chunk is begun
\* only when all calls of the chunk before it are over.
C30_OperationsInOrder ==
    /\ [](entry = "Sync" => InOrder(ops))
    /\ [][(entry = "Sync" /\ Len(ranges') > Len(ranges) /\ Len(ranges) >= 1)
            => RangeComplete]_vars

C30_Witness ==
    /\ entry = "Sync" /\ pc = "done" /\ result = ReturnedNil /\ ~isBackfill
    /\ Len(ops) >= 6 /\ ops[Len(ops)].op = "fwrite"

BackoffSlept == fn.op = "waitBeforeRetry" /\ fn.done

\* min(30 s, 1 s * 2^a), in ms
CappedBase(a) ==
    IF Exceeds(baseBackoffDelay, a, maxBackoffDelay) THEN maxBackoffDelay
    ELSE baseBackoffDelay * Pow(exponentialBase, a)

\* C31: for every attempt index a, the sleep before the next retry lies in
\* [0.75, 1.25] * min(30 s, 2^a s).
C31_SleepWithinJitterOfCappedBase ==
    BackoffSlept =>
        /\ 100 * fn.out >= 75 * CappedBase(fn.attempt)
        /\ 100 * fn.out <= 125 * CappedBase(fn.attempt)

TagsNormalized == fn.op = "normalizeTags" /\ fn.done

\* C32: mapping the same row gives the same record, normalized labels
\* included, whatever its tags are: the labels of a tag map do not depend on
\* the order in which the map is iterated.
C32_LabelsDeterministic ==
    TagsNormalized => fn.out[1] = fn.out[2]

\* C33: an error "failed after n attempts" names the number of transport
\* calls made for the request, also when the loop stopped early.
C33_AttemptCountIsCallsMade ==
    (Returned /\ ret.kind = "failed") => ret.said = calls

\* C34: in a backfill every range handed to syncSingleRange lies within the
\* configured [start, end].
C34_RangesWithinConfigured ==
    (entry = "Sync" /\ cfg.endSet) =>
        \A i \in 1..Len(ranges) : ranges[i][1] >= cfg.start /\ ranges[i][2] <= cfg.end

Drained == fn.op = "drains" /\ fn.done

\* C35: on every finite page stream AllPages and the fetch loop of the
\* adapter send the same requests, and either both fail or both return the
\* same rows.
C35_DrainsEquivalent ==
    Drained =>
        /\ fn.out[1].sent = fn.out[2].sent
        /\ fn.out[1].ok = fn.out[2].ok
        /\ fn.out[1].rows = fn.out[2].rows

RECURSIVE RecordsIn(_)
\* the number of records in a sequence of stored batches
RecordsIn(batches) ==
    IF batches = <<>> THEN 0 ELSE Len(batches[1].rows) + RecordsIn(Tail(batches))

\* C36: when Sync returns nil, TotalRecords of the diagnostics summary is the
\* number of records in the WriteRecords calls of this Sync that returned nil.
C36_TotalRecordsIsRecordsWritten ==
    (entry = "Sync" /\ pc = "done" /\ result = ReturnedNil)
        => totalRecords = RecordsIn(writes)

\* C37: every query sent to the cost endpoint has start <= end, also when the
\* start was replaced by a bookmark returned by the sink.
C37_QueryStartNotAfterEnd ==
    (entry = "Sync" /\ req = "costs") => qStart <= endDate

\* the pages requested so far are pages 1, 2, ... of the stream, each asked
\* for again until it is given, and the caller holds each page given once
PagesInStreamOrder ==
    /\ \A i \in 1..Len(ops) : ops[i] = Op("fetch", i - 1)
    /\ allRows = RowsOfPages(served)
    /\ served \in {Len(ops) - 1, Len(ops)}

\* C38: a NextPage that returns an error leaves the pager's cursor and started
\* flag as they were (they change only when a page is returned), so the next
\* call asks for the same page and no page is skipped or given twice.
C38_FailedNextPageKeepsPager ==
    /\ [](entry = "NextPage" => PagesInStreamOrder)
    /\ [][(entry = "NextPage" /\ (cursor' # cursor \/ hasStarted' # hasStarted))
            => (pc = "ret" /\ ret.ok /\ drain' = "running")]_vars
    /\ [][(entry = "NextPage" /\ drain' = "error" /\ (pc = "ret" \/ pc' = "loop"))
            => UNCHANGED <<cursor, hasStarted>>]_vars

\* the request for the second page has failed and the pager still points at it
C38_Witness ==
    /\ entry = "NextPage" /\ pc = "loop" /\ drain = "error"
    /\ hasStarted /\ cursor = 1 /\ served = 1 /\ faulted
    /\ ops = <<Op("fetch", 0), Op("fetch", 1)>>

\* the calendar months (by the day number of their first day) that overlap [a, b]
MonthsOverlapping(a, b) ==
    {d \in MonthStartDays :
        /\ d * Day <= b
        /\ \A e \in MonthStartDays : e > d => e * Day > a}

\* the chunks run so far are non-empty, start later and later, and lie in
\* different calendar months, each of which overlaps the configured range
ChunksAdvance ==
    /\ \A i \in 1..Len(ranges) :
        /\ ranges[i][1] < ranges[i][2]
        /\ (FirstOfMonth(ranges[i][1]) \div Day) \in MonthsOverlapping(cfg.start, cfg.end)
    /\ \A i, j \in 1..Len(ranges) :
        i < j => /\ ranges[i][1] < ranges[j][1]
                 /\ FirstOfMonth(ranges[i][1]) # FirstOfMonth(ranges[j][1])
    /\ Len(ranges) <= Cardinality(MonthsOverlapping(cfg.start, cfg.end))

\* C39: chunked execution terminates: every chunk is non-empty, every iteration
\* starts later than the one before, and at most one range sync is run per
\* calendar month that overlaps [start, end].
C39_ChunkedExecutionTerminates ==
    /\ []((entry = "Sync" /\ chunked) => ChunksAdvance)
    /\ (entry = "Sync" /\ chunked) ~> (pc = "done")

\* the chunked backfill of 2024-01-15 to 2024-02-20 has run its two chunks and
\* returned nil
C39_Witness ==
    /\ entry = "Sync" /\ chunked /\ pc = "done" /\ result.kind = "nil"
    /\ cfg.start = 14 * Day /\ cfg.end = 50 * Day
    /\ Len(ranges) = 2
    /\ Cardinality(MonthsOverlapping(cfg.start, cfg.end)) = 2

====
